---- MODULE Spec2Model ----
(***************************************************************************)
(* Model of the ingestion and question-answering core of demoSinesis:      *)
(*   src/vector_store.py  VectorStoreManager (the persisted Chroma         *)
(*                        collection and its write path)                   *)
(*   src/rag.py           RAGSystem, RAGSystemManager, ask_question        *)
(* Library calls (Chroma, BM25Retriever, EnsembleRetriever, ChatOllama)    *)
(* are modelled by what they do to the state the repository's code sees.   *)
(***************************************************************************)
EXTENDS Integers, Sequences, FiniteSets, TLC

(***************************************************************************)
(* Bounds of the model                                                     *)
(***************************************************************************)
\* largest number of entries the collection is allowed to grow to
MaxStore == 3
\* number of uuid4 values the model lets the program draw
MaxUuid == 7
\* longest lock of the directory, in removal attempts that find it
MaxLock == 4
\* words of a document
MaxWords == 3
\* RAGSystem objects constructed
MaxBuilt == 3

(***************************************************************************)
(* Program constants                                                       *)
(***************************************************************************)
\* search_kwargs "k" and bm25_retriever.k
K == 16
\* search_kwargs "score_threshold" 0.3, in hundredths
ScoreThreshold == 30
\* EnsembleRetriever weights [0.6, 0.4], in tenths
WeightVector == 6
WeightBM25 == 4
\* EnsembleRetriever.c, the rank constant of reciprocal rank fusion
RankConstant == 60
\* related_questions[:2]
MaxRelated == 2

(***************************************************************************)
(* Sequence helpers                                                        *)
(***************************************************************************)
Range(s) == {s[i] : i \in DOMAIN s}

Take(s, n) == SubSeq(s, 1, IF Len(s) < n THEN Len(s) ELSE n)

RECURSIVE Flatten(_)
Flatten(ss) == IF ss = <<>> THEN <<>> ELSE Head(ss) \o Flatten(Tail(ss))

(***************************************************************************)
(* The documents that can be ingested.  A chunk as process_single_document *)
(* hands it over: page_content plus the metadata the later code reads.     *)
(***************************************************************************)
\* Two files, "A" of one chunk and "B" of two; the texts of chunks are
\* named by a number, and text 1 occurs in both files.  "Y" is the
\* subtitles file of a video, of one chunk.
DocChunks(src) ==
  IF src = "A"
  THEN << [source |-> "A", content |-> 1, chunk_number |-> 1, total_chunks |-> 1] >>
  ELSE IF src = "Y"
  THEN << [source |-> "Y", content |-> 3, chunk_number |-> 1, total_chunks |-> 1] >>
  ELSE << [source |-> "B", content |-> 2, chunk_number |-> 1, total_chunks |-> 2],
          [source |-> "B", content |-> 1, chunk_number |-> 2, total_chunks |-> 2] >>

\* the lists of files process_and_save_files is called with; it calls
\* _save_to_vectorstore only when the files gave at least one chunk
Batches == { <<"A">>, <<"B">>, <<"A", "B">> }

\* processed_docs: the chunks of all files of the batch, in order
ProcessedDocs(batch) == Flatten([i \in DOMAIN batch |-> DocChunks(batch[i])])

VARIABLES
  dirExists,      \* Path(chroma_dir).exists()
  store,          \* the entries of the persisted collection, in insertion order
  uuidNext,       \* the next value uuid.uuid4() returns
  vsVectorstore,  \* VectorStoreManager.vectorstore is not None
  lastSave,       \* what the last save_to_chroma call did
  instances,      \* RAGSystemManager._instances
  ragSelf,        \* the RAGSystem the running ask_question call is bound to
  pc,             \* where the running ask_question call stands
  question,       \* its argument
  all_questions,  \* the result of _generate_related_questions
  qIndex,         \* position of the loop "for q in all_questions"
  all_relevant_docs,
  seen_content,
  result,         \* the dict ask_question returned
  events,         \* the calls the running ask_question made, in order
  lastRetrieval,  \* what the last retriever.invoke call saw and returned
  llmResponse,    \* the lines the model answered the expansion prompt with
  lastProcess,    \* what the last process_and_save_files call was given
  lastExists,     \* what the last collection_exists call saw and returned
  lastClear,      \* what the last clear_vectorstore call did
  writers,        \* per UI session: the write its VectorStoreManager is in
  lastSplit,      \* what the last split_documents call was given and returned
  manager,        \* RAGSystemManager: the objects cached and the calls made
  vectorstoreFlag, \* the app state 'vectorstore_exists' of DocumentDB
  documents,      \* the documents table of DocumentDB: path -> status
  uploadedFiles,  \* the app state 'uploaded_files' of DocumentDB
  lastUpload,     \* what the last run of the documents upload page did
  lastYoutube,    \* what the last _process_youtube_subtitles call did
  lastSearch      \* what the last run of the search page did

vsVars == <<dirExists, store, uuidNext, vsVectorstore, lastSave>>

askVars == <<ragSelf, pc, question, all_questions, qIndex, all_relevant_docs,
             seen_content, result, events, lastRetrieval, llmResponse>>

opsVars == <<lastProcess, lastExists, lastClear>>

\* what DocumentDB persists
bookVars == <<vectorstoreFlag, documents, uploadedFiles>>

pageVars == <<lastUpload, lastYoutube, lastSearch>>

uiVars == <<writers, lastSplit, manager, vectorstoreFlag, documents,
            uploadedFiles, lastUpload, lastYoutube, lastSearch>>

vars == <<dirExists, store, uuidNext, vsVectorstore, lastSave, instances,
          ragSelf, pc, question, all_questions, qIndex, all_relevant_docs,
          seen_content, result, events, lastRetrieval, llmResponse,
          lastProcess, lastExists, lastClear, writers, lastSplit, manager,
          vectorstoreFlag, documents, uploadedFiles, lastUpload, lastYoutube,
          lastSearch>>

(***************************************************************************)
(* VectorStoreManager.collection_exists                                    *)
(***************************************************************************)
CollectionExists == dirExists /\ Len(store) > 0

(***************************************************************************)
(* save_to_chroma, lines 100-119: every chunk gets doc_id                  *)
(* "doc_<batch_id>_<i>", chunk_number i+1 and total_chunks len(docs),      *)
(* overwriting what the chunk carried.                                     *)
(***************************************************************************)
DocId(batch_id, i) == <<"doc", batch_id, i>>

EnrichMetadata(docs, batch_id) ==
  [i \in DOMAIN docs |->
     [source        |-> docs[i].source,
      content       |-> docs[i].content,
      doc_id        |-> DocId(batch_id, i - 1),
      batch_id      |-> batch_id,
      document_name |-> docs[i].source,
      chunk_number  |-> i,
      total_chunks  |-> Len(docs)]]

(***************************************************************************)
(* Chroma.add_documents / Chroma.from_documents called without ids: the    *)
(* library stores every document under a fresh uuid4 key.                  *)
(***************************************************************************)
StorageKey(n) == <<"uuid", n>>

WithKeys(docs, first) ==
  [i \in DOMAIN docs |->
     [key           |-> StorageKey(first + i - 1),
      source        |-> docs[i].source,
      content       |-> docs[i].content,
      doc_id        |-> docs[i].doc_id,
      batch_id      |-> docs[i].batch_id,
      document_name |-> docs[i].document_name,
      chunk_number  |-> docs[i].chunk_number,
      total_chunks  |-> docs[i].total_chunks]]

\* vectorstore.get()['ids']
ExistingIds(st) == {st[i].key : i \in DOMAIN st}

\* line 137: new_docs = [doc for doc in docs if doc_id not in existing_ids]
NewDocs(docs, existing_ids) ==
  SelectSeq(docs, LAMBDA d : d.doc_id \notin existing_ids)

\* line 140: vectorstore.add_documents(new_docs) appends to the collection
AddDocuments(st, docs, first) == st \o WithKeys(docs, first)

\* a from_documents that would drop the collection and start it again
FromDocumentsRecreate(st, docs, first) == WithKeys(docs, first)

\* lines 144-149 and 152-157: Chroma.from_documents opens the collection of
\* that name with get_or_create and adds the documents to it
FromDocuments(st, docs, first) == st \o WithKeys(docs, first)

NoSave ==
  [called |-> FALSE, batch |-> <<>>, prevBatch |-> <<>>, before |-> <<>>,
   existed |-> FALSE, fellBack |-> FALSE, raised |-> FALSE, written |-> <<>>]

(***************************************************************************)
(* VectorStoreManager.save_to_chroma(docs, embed_model), called by         *)
(* DocumentProcessor._save_to_vectorstore with the chunks of a batch.      *)
(*   addRaises      vectorstore.get() or add_documents raises (line 141)   *)
(*   fromDocsRaises Chroma.from_documents raises (embedding the chunks     *)
(*                  fails, after the client has created the directory)     *)
(***************************************************************************)
\* lines 94-166 for a manager whose collection_exists() call (line 126)
\* returned existed: the collection, the directory, the uuid4 values drawn
\* and the record of the call
SaveOutcome(batch, existed, addRaises, fromDocsRaises) ==
  LET docs     == EnrichMetadata(ProcessedDocs(batch), uuidNext)
      first    == uuidNext + 1
      fallback == existed /\ addRaises
      raises   == IF docs = <<>> THEN TRUE
                  ELSE IF existed THEN addRaises /\ fromDocsRaises
                  ELSE fromDocsRaises
      after    == IF raises THEN store
                  ELSE IF ~existed \/ fallback THEN FromDocuments(store, docs, first)
                  ELSE AddDocuments(store, NewDocs(docs, ExistingIds(store)), first)
      prev     == IF lastSave.called /\ ~lastSave.raised THEN lastSave.batch ELSE <<>>
  IN [fits      |-> /\ uuidNext + Len(docs) <= MaxUuid
                    /\ Len(store) + Len(docs) <= MaxStore,
      store     |-> after,
      dirExists |-> IF docs = <<>> THEN dirExists ELSE TRUE,
      uuidNext  |-> IF docs = <<>> THEN uuidNext
                    ELSE uuidNext + 1 + (Len(after) - Len(store)),
      loaded    |-> docs # <<>> /\ (existed \/ ~raises),
      lastSave  |-> [called |-> TRUE, batch |-> batch, prevBatch |-> prev,
                     before |-> store, existed |-> existed,
                     fellBack |-> fallback, raised |-> raises,
                     written |-> SubSeq(after, Len(store) + 1, Len(after))]]

SaveToChroma(batch, addRaises, fromDocsRaises) ==
  LET o == SaveOutcome(batch, CollectionExists, addRaises, fromDocsRaises)
  IN /\ o.fits
     /\ store' = o.store
     /\ dirExists' = o.dirExists
     /\ uuidNext' = o.uuidNext
     /\ vsVectorstore' = (vsVectorstore \/ o.loaded)
     /\ lastSave' = o.lastSave

(***************************************************************************)
(* Questions.  The embedding model and the BM25 statistics are external:   *)
(* the similarity of a question to a text (in hundredths) and its BM25     *)
(* score are fixed tables.                                                 *)
(***************************************************************************)
\* what the user can type: two questions, nothing, and whitespace only
UserQuestions == {"q1", "q2", "", "   "}

\* a question on a topic that only text 2, a chunk of file "B", is about:
\* text 1, the chunk of file "A", is below the score threshold for it and
\* shares no term with it
TopicQuestion == "q4"

\* a check "if not question:" that would not strip
StripNothing(q) == q

\* question.strip()
Strip(q) == IF q \in {"", "   "} THEN "" ELSE q

Similarity(q, c) ==
  CASE q = "q1" /\ c = 1 -> 80
    [] q = "q1" /\ c = 2 -> 20
    [] q = "q2" /\ c = 1 -> 30
    [] q = "q2" /\ c = 2 -> 55
    [] q = "q3" /\ c = 1 -> 10
    [] q = "q4" /\ c = 1 -> 5
    [] q = "q4" /\ c = 2 -> 70
    [] OTHER            -> 25

Bm25Score(q, c) ==
  CASE q = "q1" /\ c = 1 -> 3
    [] q = "q1" /\ c = 2 -> 1
    [] q = "q2" /\ c = 2 -> 2
    [] q = "q4" /\ c = 2 -> 2
    [] OTHER            -> 0

(***************************************************************************)
(* Stable sort of a sequence by descending key; among equal keys the       *)
(* earlier element comes first (laterFirst = FALSE) or the later one       *)
(* (laterFirst = TRUE, the order of numpy's argsort(scores)[::-1]).        *)
(***************************************************************************)
SortDesc(s, Key(_), laterFirst) ==
  LET n == Len(s)
      Before(j, i) == \/ Key(s[j]) > Key(s[i])
                      \/ /\ Key(s[j]) = Key(s[i])
                         /\ IF laterFirst THEN j > i ELSE j < i
      Pos(i) == 1 + Cardinality({j \in 1..n : Before(j, i)})
  IN [p \in 1..n |-> s[CHOOSE i \in 1..n : Pos(i) = p]]

NoMetadata ==
  [present |-> FALSE, source |-> "", document_name |-> "", chunk_number |-> 0]

\* the Document a vector search returns for a stored entry
StoredDocument(e) ==
  [page_content |-> e.content,
   metadata |-> [present |-> TRUE, source |-> e.source,
                 document_name |-> e.document_name,
                 chunk_number |-> e.chunk_number]]

\* BM25Retriever.from_texts(self.docs): documents without metadata
TextDocument(c) == [page_content |-> c, metadata |-> NoMetadata]

\* the k nearest entries, most similar first
NearestK(st, q) ==
  Take(SortDesc(st, LAMBDA e : Similarity(q, e.content), FALSE), K)

MapSeq(s, F(_)) == [i \in DOMAIN s |-> F(s[i])]

(***************************************************************************)
(* The retrievers _setup_retriever can build                               *)
(***************************************************************************)
\* as_retriever(search_type="similarity_score_threshold", k=16, 0.3): the k
\* nearest entries, of which those below the threshold are discarded
ThresholdSearch(st, q) ==
  MapSeq(SelectSeq(NearestK(st, q),
                   LAMBDA e : Similarity(q, e.content) >= ScoreThreshold),
         StoredDocument)

\* as_retriever(search_kwargs={"k": 16}): plain similarity search
PlainSearch(st, q) == MapSeq(NearestK(st, q), StoredDocument)

\* BM25Retriever over the texts it was built from: the k best scores,
\* whatever the scores are
Bm25TopK(corpus, q) ==
  MapSeq(Take(SortDesc(corpus, LAMBDA c : Bm25Score(q, c), TRUE), K),
         TextDocument)

RECURSIVE RankDenominator(_)
RankDenominator(n) ==
  IF n = 0 THEN 1 ELSE (n + RankConstant) * RankDenominator(n - 1)

\* the sum of weight / (rank + c) over the ranks at which the list holds a
\* document of that content, as a multiple of 1 / den
RECURSIVE RankSum(_, _, _, _, _)
RankSum(list, rank, content, weight, den) ==
  IF rank > Len(list) THEN 0
  ELSE (IF list[rank].page_content = content
        THEN weight * (den \div (rank + RankConstant)) ELSE 0)
       + RankSum(list, rank + 1, content, weight, den)

\* unique_by_key(docs, page_content): the first document of each content
RECURSIVE UniqueByContent(_, _)
UniqueByContent(docs, seen) ==
  IF docs = <<>> THEN <<>>
  ELSE IF Head(docs).page_content \in seen
       THEN UniqueByContent(Tail(docs), seen)
       ELSE <<Head(docs)>>
            \o UniqueByContent(Tail(docs), seen \cup {Head(docs).page_content})

\* EnsembleRetriever.weighted_reciprocal_rank over [vector, bm25]
EnsembleRank(vectorDocs, bm25Docs) ==
  LET n   == IF Len(vectorDocs) > Len(bm25Docs)
             THEN Len(vectorDocs) ELSE Len(bm25Docs)
      den == RankDenominator(n)
      Score(d) == RankSum(vectorDocs, 1, d.page_content, WeightVector, den)
                  + RankSum(bm25Docs, 1, d.page_content, WeightBM25, den)
  IN SortDesc(UniqueByContent(vectorDocs \o bm25Docs, {}), Score, FALSE)

(***************************************************************************)
(* RAGSystem._setup_retriever: which retriever the instance gets.          *)
(*   docs        self.docs, the texts read by _load_vectorstore            *)
(*   bm25Raises  BM25Retriever.from_texts raises                           *)
(***************************************************************************)
SetupRetriever(docs, bm25Raises) ==
  IF docs # <<>>
  THEN IF bm25Raises THEN "fallback" ELSE "hybrid"
  ELSE "vector"

\* self.retriever.invoke(q) on the instance rag, the collection holding st
RetrieverInvoke(rag, st, q) ==
  CASE rag.retriever = "hybrid" ->
         EnsembleRank(ThresholdSearch(st, q), Bm25TopK(rag.docs, q))
    [] rag.retriever = "vector" -> ThresholdSearch(st, q)
    [] OTHER -> PlainSearch(st, q)

(***************************************************************************)
(* RAGSystemManager.get_rag_system and the construction of a RAGSystem     *)
(***************************************************************************)
InstanceKey == "document_collection_BD/chroma_db_dir"

NoInstances == [k \in {} |-> 0]

\* no RAGSystem: the construction raised
NoRAGSystem == [docs |-> <<>>, retriever |-> ""]

\* _load_vectorstore raises when the directory is missing or the
\* collection is empty
LoadRaises == ~dirExists \/ Len(store) = 0

\* stored_data['documents']
StoredDocuments(st) == [i \in DOMAIN st |-> st[i].content]

NewRAGSystem(bm25Raises) ==
  [docs      |-> StoredDocuments(store),
   retriever |-> SetupRetriever(StoredDocuments(store), bm25Raises)]

\* the cache after get_rag_system; a construction that raises leaves it
GetRagSystem(bm25Raises) ==
  IF InstanceKey \in DOMAIN instances \/ LoadRaises
  THEN instances
  ELSE [k \in {InstanceKey} |-> NewRAGSystem(bm25Raises)]

(***************************************************************************)
(* RAGSystem._generate_related_questions.  A line of the model's response  *)
(* is its leading marker and the text after it:                            *)
(*   "none" text   "num" 1. text   "dash" - text   "star" * text           *)
(*   "bullet" (U+2022) text                                                *)
(***************************************************************************)
Line(marker, text) == [marker |-> marker, text |-> text]

\* lines 273-280: what one line adds to related_questions
CleanLine(line) ==
  IF line.marker = "none" /\ line.text = "" THEN <<>>
  ELSE IF line.marker \in {"dash", "star"} THEN <<>>
  ELSE IF line.text = "" THEN <<>>
  ELSE <<line.text>>

\* a cleaning without the slice [:2] of line 283
RelatedQuestionsUncapped(response) ==
  Flatten(MapSeq(response, CleanLine))

\* lines 269-283
RelatedQuestions(response) ==
  Take(Flatten(MapSeq(response, CleanLine)), MaxRelated)

\* an expansion whose handler would return no question at all
GenerateRelatedQuestionsNoFallback(original_question, llmRaises, response) ==
  IF llmRaises THEN <<>>
  ELSE <<original_question>> \o RelatedQuestions(response)

\* lines 260-297; llmRaises: self.llm.invoke raises
GenerateRelatedQuestions(original_question, llmRaises, response) ==
  IF llmRaises THEN <<original_question>>
  ELSE <<original_question>> \o RelatedQuestions(response)

\* the responses the generation model is let to give
Responses ==
  { <<>>,
    << Line("none", "q2"), Line("none", "q3") >>,
    << Line("num", "q3"), Line("dash", "q2"), Line("none", ""),
       Line("bullet", "q1"), Line("none", "q2") >> }

(***************************************************************************)
(* RAGSystem.ask_question, lines 324-339: the documents of one retrieval   *)
(* are added to all_relevant_docs unless their content was seen            *)
(***************************************************************************)
\* hash(doc.page_content)
PyHash(content) == (content * 1000003 + 97) % 65536

\* a loop that would tell documents apart by content and metadata
RECURSIVE GatherDocsByDocument(_, _, _)
GatherDocsByDocument(docs, acc, seen) ==
  IF docs = <<>> THEN [docs |-> acc, seen |-> seen]
  ELSE IF Head(docs) \notin Range(acc)
       THEN GatherDocsByDocument(Tail(docs), Append(acc, Head(docs)),
                                 seen \cup {PyHash(Head(docs).page_content)})
       ELSE GatherDocsByDocument(Tail(docs), acc, seen)

RECURSIVE GatherDocs(_, _, _)
GatherDocs(docs, acc, seen) ==
  IF docs = <<>> THEN [docs |-> acc, seen |-> seen]
  ELSE LET content_hash == PyHash(Head(docs).page_content)
       IN IF content_hash \notin seen
          THEN GatherDocs(Tail(docs), Append(acc, Head(docs)),
                          seen \cup {content_hash})
          ELSE GatherDocs(Tail(docs), acc, seen)

(***************************************************************************)
(* lines 360-373: the distinct sources of the retrieved documents          *)
(***************************************************************************)
\* a loop without the test "source_name not in sources" of line 367
RECURSIVE ExtractSourcesAll(_, _, _)
ExtractSourcesAll(docs, sources, source_metadata) ==
  IF docs = <<>> THEN [sources |-> sources, source_metadata |-> source_metadata]
  ELSE LET doc == Head(docs)
       IN IF doc.metadata.present
          THEN ExtractSourcesAll(Tail(docs),
                 Append(sources, doc.metadata.source),
                 Append(source_metadata,
                        [source |-> doc.metadata.source,
                         document_name |-> doc.metadata.document_name,
                         chunk_number |-> doc.metadata.chunk_number]))
          ELSE ExtractSourcesAll(Tail(docs), sources, source_metadata)
RECURSIVE ExtractSources(_, _, _)
ExtractSources(docs, sources, source_metadata) ==
  IF docs = <<>> THEN [sources |-> sources, source_metadata |-> source_metadata]
  ELSE LET doc == Head(docs)
       IN IF doc.metadata.present /\ doc.metadata.source \notin Range(sources)
          THEN ExtractSources(Tail(docs),
                 Append(sources, doc.metadata.source),
                 Append(source_metadata,
                        [source |-> doc.metadata.source,
                         document_name |-> doc.metadata.document_name,
                         chunk_number |-> doc.metadata.chunk_number]))
          ELSE ExtractSources(Tail(docs), sources, source_metadata)

(***************************************************************************)
(* The dicts ask_question returns                                          *)
(***************************************************************************)
ClarificationText ==
  "Por favor, hazme una pregunta especifica sobre los documentos cargados."

ApologyText ==
  "Disculpa, tuve un problema tecnico procesando tu consulta. Podrias reformular tu pregunta?"

\* str(e) of the errors the providers raise
ErrorDescriptions == {"connection refused", "timed out"}

NoResult ==
  [answer |-> "", sources |-> <<>>, error |-> "", source_details |-> <<>>,
   total_sources |-> 0, total_chunks_retrieved |-> 0, questions_used |-> 0]

\* lines 311-316
EmptyQuestionResult ==
  [NoResult EXCEPT !.answer = ClarificationText, !.error = "Pregunta vacia"]

\* a handler that would drop the description of the error
ErrorResultNoDescription(description) ==
  [NoResult EXCEPT !.answer = ApologyText]

\* lines 390-396
ErrorResult(description) ==
  [NoResult EXCEPT !.answer = ApologyText, !.error = description]

\* lines 375-385
AnswerResult(answer, docs, questions) ==
  LET x == ExtractSources(docs, <<>>, <<>>)
  IN [answer |-> answer, sources |-> x.sources, error |-> "",
      source_details |-> x.source_metadata,
      total_sources |-> Len(x.sources),
      total_chunks_retrieved |-> Len(docs),
      questions_used |-> Len(questions)]

\* the module-level ask_question, lines 480-482: the RAGSystem could not be
\* obtained
UnavailableResult ==
  [NoResult EXCEPT !.answer = "Error: No se pudo procesar la pregunta."]

\* a prompt that would be given the last expanded question
PromptLastQuestion(original_question, questions) ==
  IF questions = <<>> THEN original_question ELSE questions[Len(questions)]

\* line 349: the question put into the answer prompt
PromptQuestion(original_question, questions) == original_question

\* a loop without the handler of lines 337-339
RetrievalStepUncaught(retrieverRaises, docs) ==
  [escapes |-> retrieverRaises, docs |-> IF retrieverRaises THEN <<>> ELSE docs]

\* lines 329-339: what one pass of the loop takes from retriever.invoke(q);
\* escapes: the exception leaves the loop for the handler of line 390
RetrievalStep(retrieverRaises, docs) ==
  [escapes |-> FALSE, docs |-> IF retrieverRaises THEN <<>> ELSE docs]

NoRetrieval ==
  [made |-> FALSE, q |-> "", kind |-> "", raised |-> FALSE, corpus |-> <<>>,
   stored |-> <<>>, out |-> <<>>]

Event(ev, q, raised, out) ==
  [ev |-> ev, q |-> q, raised |-> raised, out |-> out]

(***************************************************************************)
(* The module-level ask_question(question) up to the first model call:     *)
(* get_rag_system, then the blank check of RAGSystem.ask_question.         *)
(***************************************************************************)
AskStart(q, bm25Raises) ==
  LET cache == GetRagSystem(bm25Raises)
      ok    == InstanceKey \in DOMAIN cache
  IN /\ pc \in {"idle", "done"}
     /\ instances' = cache
     /\ ragSelf' = IF ok THEN cache[InstanceKey] ELSE NoRAGSystem
     /\ question' = q
     /\ all_questions' = <<>>
     /\ qIndex' = 1
     /\ all_relevant_docs' = <<>>
     /\ seen_content' = {}
     /\ events' = <<>>
     /\ lastRetrieval' = NoRetrieval
     /\ llmResponse' = <<>>
     /\ IF ~ok
        THEN pc' = "done" /\ result' = UnavailableResult
        ELSE IF Strip(q) = ""
        THEN pc' = "done" /\ result' = EmptyQuestionResult
        ELSE pc' = "expand" /\ result' = NoResult
     /\ UNCHANGED vsVars
     /\ UNCHANGED opsVars
     /\ UNCHANGED uiVars

\* line 322: all_questions = self._generate_related_questions(question)
Expand(llmRaises, response) ==
  /\ pc = "expand"
  /\ all_questions' = GenerateRelatedQuestions(question, llmRaises, response)
  /\ events' = Append(events, Event("expand", question, llmRaises, <<>>))
  /\ llmResponse' = IF llmRaises THEN <<>> ELSE response
  /\ pc' = "retrieve"
  /\ UNCHANGED <<instances, ragSelf, question, qIndex, all_relevant_docs,
                 seen_content, result, lastRetrieval>>
  /\ UNCHANGED vsVars
  /\ UNCHANGED opsVars
  /\ UNCHANGED uiVars

\* lines 328-339: one pass of "for q in all_questions"
Retrieve(retrieverRaises) ==
  /\ pc = "retrieve"
  /\ qIndex <= Len(all_questions)
  /\ LET q    == all_questions[qIndex]
         out  == RetrieverInvoke(ragSelf, store, q)
         step == RetrievalStep(retrieverRaises, out)
         g    == GatherDocs(step.docs, all_relevant_docs, seen_content)
     IN /\ events' = Append(events,
                           Event("retrieve", q, retrieverRaises, step.docs))
        /\ lastRetrieval' =
             [made |-> TRUE, q |-> q, kind |-> ragSelf.retriever,
              raised |-> retrieverRaises, corpus |-> ragSelf.docs,
              stored |-> store,
              out |-> IF retrieverRaises THEN <<>> ELSE out]
        /\ IF step.escapes
           THEN /\ pc' = "done"
                /\ result' = ErrorResult("retriever failed")
                /\ UNCHANGED <<qIndex, all_relevant_docs, seen_content>>
           ELSE /\ all_relevant_docs' = g.docs
                /\ seen_content' = g.seen
                /\ qIndex' = qIndex + 1
                /\ UNCHANGED <<pc, result>>
  /\ UNCHANGED <<instances, ragSelf, question, all_questions, llmResponse>>
  /\ UNCHANGED vsVars
  /\ UNCHANGED opsVars
  /\ UNCHANGED uiVars

\* lines 341-396: context, the answer call, the sources, the result
Generate(llmRaises, description) ==
  /\ pc = "retrieve"
  /\ qIndex > Len(all_questions)
  /\ events' = Append(events,
                      Event("generate", PromptQuestion(question, all_questions),
                            llmRaises, <<>>))
  /\ result' = IF llmRaises THEN ErrorResult(description)
               ELSE AnswerResult("respuesta", all_relevant_docs, all_questions)
  /\ pc' = "done"
  /\ UNCHANGED <<instances, ragSelf, question, all_questions, qIndex,
                 all_relevant_docs, seen_content, lastRetrieval, llmResponse>>
  /\ UNCHANGED vsVars
  /\ UNCHANGED opsVars
  /\ UNCHANGED uiVars

\* DocumentProcessor._save_to_vectorstore, line 171
Save(batch, addRaises, fromDocsRaises) ==
  /\ SaveToChroma(batch, addRaises, fromDocsRaises)
  /\ UNCHANGED <<instances, ragSelf, pc, question, all_questions, qIndex,
                 all_relevant_docs, seen_content, result, events,
                 lastRetrieval, llmResponse>>
  /\ UNCHANGED opsVars
  /\ UNCHANGED uiVars

(***************************************************************************)
(* DocumentProcessor.process_and_save_files(valid_files, file_details)     *)
(*   chunkFails  the files whose loading or chunking raises in             *)
(*               process_single_document                                   *)
(*   embedFails  the files with a chunk the embedding model raises on      *)
(***************************************************************************)
\* _process_documents, lines 108-123: a file that raises is skipped
LoadedFiles(files, chunkFails) ==
  SelectSeq(files, LAMBDA f : f \notin chunkFails)

\* the embedding of the chunks handed to save_to_chroma raises
EmbeddingRaises(files, embedFails) ==
  \E i \in DOMAIN files : files[i] \in embedFails

\* generate_file_hash(file_content): the md5 of the content; the content of
\* a file is named by the file
Hash(f) == <<"md5", f>>

\* the hash of an entry that has no 'hash' key
NoHash == <<>>

\* an element of file_details and of the app state 'uploaded_files'
FileDetail(path, hash, status) ==
  [path |-> path, hash |-> hash, status |-> status]

NoDocuments == [p \in {} |-> ""]

\* update_document_status(path, status): no row, no change
UpdateDocumentStatus(table, path, status) ==
  [p \in DOMAIN table |-> IF p = path THEN status ELSE table[p]]

\* _update_file_status, lines 206-212, on the documents table
RECURSIVE MarkIndexed(_, _)
MarkIndexed(table, file_details) ==
  IF file_details = <<>> THEN table
  ELSE MarkIndexed(UpdateDocumentStatus(table, Head(file_details).path,
                                        "Indexado"),
                   Tail(file_details))

\* _update_file_status, line 205 and line 214: the list get_state returns
\* is decoded from the stored JSON, so it holds none of the dictionaries
\* of file_details, and it is stored again as it was read
WrittenBack(state, file_details) == state

\* file["status"] = "Indexado" on the dictionaries of file_details
Indexed(file_details) ==
  [i \in DOMAIN file_details |->
     FileDetail(file_details[i].path, file_details[i].hash, "Indexado")]

NoProcess ==
  [called |-> FALSE, files |-> <<>>, chunkFails |-> {}, embedFails |-> {},
   saved |-> FALSE, details |-> <<>>, documents |-> NoDocuments,
   uploaded |-> <<>>, returned |-> "None"]

\* process_and_save_files(valid_files, file_details) with the documents
\* table and the app state it finds: what it leaves and returns
ProcessOutcome(files, file_details, chunkFails, embedFails, table, state) ==
  LET loaded == LoadedFiles(files, chunkFails)
      raises == EmbeddingRaises(loaded, embedFails)
      saved  == loaded # <<>> /\ ~raises
  IN [loaded    |-> loaded,
      raises    |-> raises,
      flag      |-> vectorstoreFlag \/ saved,
      documents |-> IF saved THEN MarkIndexed(table, file_details) ELSE table,
      uploaded  |-> IF saved THEN WrittenBack(state, file_details) ELSE state,
      last      |-> [called |-> TRUE, files |-> files,
                     chunkFails |-> chunkFails, embedFails |-> embedFails,
                     saved |-> saved,
                     details |-> IF saved THEN Indexed(file_details)
                                 ELSE file_details,
                     documents |-> IF saved THEN MarkIndexed(table, file_details)
                                   ELSE table,
                     uploaded |-> IF saved THEN WrittenBack(state, file_details)
                                  ELSE state,
                     returned |-> "None"]]

\* the file_details of files uploaded just now
NewDetails(files) ==
  [i \in DOMAIN files |-> FileDetail(files[i], Hash(files[i]), "Pendiente")]

ProcessAndSaveFiles(files, chunkFails, embedFails) ==
  LET o == ProcessOutcome(files, NewDetails(files), chunkFails, embedFails,
                          documents, uploadedFiles)
  IN /\ IF o.loaded = <<>>
        THEN UNCHANGED vsVars
        ELSE SaveToChroma(o.loaded, o.raises, o.raises)
     /\ lastProcess' = o.last
     /\ vectorstoreFlag' = o.flag
     /\ documents' = o.documents
     /\ uploadedFiles' = o.uploaded
     /\ UNCHANGED <<instances, lastExists, lastClear>>
     /\ UNCHANGED askVars
     /\ UNCHANGED <<writers, lastSplit, manager>>
     /\ UNCHANGED pageVars

(***************************************************************************)
(* VectorStoreManager.collection_exists, lines 55-72                       *)
(*   checkRaises  setup_embeddings, Chroma(...) or count() raises          *)
(***************************************************************************)
\* a check that would only look for the directory
CollectionExistsDirOnly(checkRaises) == dirExists
CollectionExistsResult(checkRaises) ==
  IF ~dirExists THEN FALSE
  ELSE IF checkRaises THEN FALSE
  ELSE Len(store) > 0

NoExists ==
  [called |-> FALSE, dir |-> FALSE, count |-> 0, raised |-> FALSE,
   value |-> FALSE]

CheckExists(checkRaises) ==
  /\ lastExists' = [called |-> TRUE, dir |-> dirExists, count |-> Len(store),
                    raised |-> dirExists /\ checkRaises,
                    value |-> CollectionExistsResult(checkRaises)]
  /\ UNCHANGED <<instances, lastProcess, lastClear>>
  /\ UNCHANGED vsVars
  /\ UNCHANGED askVars
  /\ UNCHANGED uiVars

(***************************************************************************)
(* VectorStoreManager.clear_vectorstore, lines 230-269                     *)
(*   platform   os.name                                                    *)
(*   lockedFor  the number of removal attempts that find the directory     *)
(*              locked by another process before the lock is released      *)
(***************************************************************************)
Platforms == {"nt", "posix"}

RECURSIVE Pow2(_)
Pow2(n) == IF n = 0 THEN 1 ELSE 2 * Pow2(n - 1)

Attempt(kind, failed, wait) == [kind |-> kind, failed |-> failed, wait |-> wait]

\* _retry_delete, lines 260-269: shutil.rmtree up to max_attempts times,
\* sleeping 2 ** attempt after a PermissionError; attempt numbers from 0,
\* locked is the number of these attempts that find the lock
RECURSIVE RetryDelete(_, _, _)
RetryDelete(attempt, max_attempts, locked) ==
  IF attempt >= max_attempts THEN <<>>
  ELSE IF locked > 0
       THEN <<Attempt("rmtree", TRUE, Pow2(attempt))>>
            \o RetryDelete(attempt + 1, max_attempts, locked - 1)
       ELSE <<Attempt("rmtree", FALSE, 0)>>

\* _force_delete_windows, lines 252-258: rmdir /s /q, and _retry_delete
\* with 3 attempts when it fails
ForceDeleteWindows(locked) ==
  IF locked > 0
  THEN <<Attempt("rmdir", TRUE, 0)>> \o RetryDelete(0, 3, locked - 1)
  ELSE <<Attempt("rmdir", FALSE, 0)>>

\* lines 239-243: the removal attempts of one clear_vectorstore call
RemovalAttempts(platform, locked) ==
  IF ~dirExists THEN <<>>
  ELSE IF platform = "nt" THEN ForceDeleteWindows(locked)
  ELSE <<Attempt("rmtree", locked > 0, 0)>>

\* the last attempt went through
Removed(attempts) ==
  attempts # <<>> /\ ~attempts[Len(attempts)].failed

\* lines 247-250: the exception of a failed removal is printed, the call
\* returns
ClearRaises(attempts) == FALSE

\* dirAfter, countAfter: the directory and the collection when the call
\* returns
NoClear ==
  [called |-> FALSE, platform |-> "", existed |-> FALSE, attempts |-> <<>>,
   removed |-> FALSE, raised |-> FALSE, dirAfter |-> FALSE, countAfter |-> 0]

ClearVectorstore(platform, lockedFor) ==
  LET attempts == RemovalAttempts(platform, lockedFor)
  IN /\ vsVectorstore' = FALSE
     /\ dirExists' = (dirExists /\ ~Removed(attempts))
     /\ store' = IF Removed(attempts) THEN <<>> ELSE store
     /\ lastClear' = [called |-> TRUE, platform |-> platform,
                      existed |-> dirExists, attempts |-> attempts,
                      removed |-> Removed(attempts),
                      raised |-> ClearRaises(attempts),
                      dirAfter |-> dirExists /\ ~Removed(attempts),
                      countAfter |-> IF Removed(attempts) THEN 0
                                     ELSE Len(store)]
     /\ UNCHANGED <<uuidNext, lastSave, instances, lastProcess, lastExists>>
     /\ UNCHANGED askVars
     /\ UNCHANGED uiVars

(***************************************************************************)
(* Two UI sessions.  Every DocumentProcessor builds a VectorStoreManager   *)
(* of its own (document_processor.py line 40) on the same chroma_dir and   *)
(* collection; a session is inside save_to_chroma from its                 *)
(* collection_exists() call (line 126) to its return, and inside           *)
(* clear_vectorstore from line 233 to its return.                          *)
(***************************************************************************)
Sessions == {"s1", "s2"}

\* vectorstore: the attribute of the session's manager is not None
Write(op, batch, existed, vectorstore) ==
  [op |-> op, batch |-> batch, existed |-> existed, vectorstore |-> vectorstore]

NoWrite == Write("idle", <<>>, FALSE, FALSE)

\* save_to_chroma, lines 94-126: the metadata and the collection_exists()
\* call; nothing is taken that would keep another session out
BeginSave(s, batch) ==
  /\ writers[s].op = "idle"
  /\ writers' = [writers EXCEPT
                   ![s] = Write("save", batch, CollectionExists, @.vectorstore)]
  /\ UNCHANGED <<lastSplit, manager>>
  /\ UNCHANGED bookVars
  /\ UNCHANGED pageVars
  /\ UNCHANGED instances
  /\ UNCHANGED vsVars
  /\ UNCHANGED askVars
  /\ UNCHANGED opsVars

\* save_to_chroma, lines 127-166: the write, on the branch the earlier
\* collection_exists() call chose; the calls on a collection that another
\* session removed in the meantime raise
EndSave(s, addRaises, fromDocsRaises) ==
  LET w    == writers[s]
      gone == w.existed /\ ~CollectionExists
      o    == SaveOutcome(w.batch, w.existed, addRaises \/ gone, fromDocsRaises)
  IN /\ w.op = "save"
     /\ o.fits
     /\ store' = o.store
     /\ dirExists' = o.dirExists
     /\ uuidNext' = o.uuidNext
     /\ lastSave' = o.lastSave
     /\ writers' = [writers EXCEPT
                      ![s] = Write("idle", <<>>, FALSE, w.vectorstore \/ o.loaded)]
     /\ UNCHANGED <<vsVectorstore, lastSplit, manager, instances>>
     /\ UNCHANGED bookVars
     /\ UNCHANGED pageVars
     /\ UNCHANGED askVars
     /\ UNCHANGED opsVars

\* clear_vectorstore, lines 233-237: the attribute is dropped and the call
\* sleeps one second
BeginClear(s) ==
  /\ writers[s].op = "idle"
  /\ writers' = [writers EXCEPT ![s] = Write("clear", <<>>, FALSE, FALSE)]
  /\ UNCHANGED <<lastSplit, manager>>
  /\ UNCHANGED bookVars
  /\ UNCHANGED pageVars
  /\ UNCHANGED instances
  /\ UNCHANGED vsVars
  /\ UNCHANGED askVars
  /\ UNCHANGED opsVars

\* clear_vectorstore, lines 239-250: the removal
EndClear(s, platform, lockedFor) ==
  LET attempts == RemovalAttempts(platform, lockedFor)
  IN /\ writers[s].op = "clear"
     /\ dirExists' = (dirExists /\ ~Removed(attempts))
     /\ store' = IF Removed(attempts) THEN <<>> ELSE store
     /\ lastClear' = [called |-> TRUE, platform |-> platform,
                      existed |-> dirExists, attempts |-> attempts,
                      removed |-> Removed(attempts),
                      raised |-> ClearRaises(attempts),
                      dirAfter |-> dirExists /\ ~Removed(attempts),
                      countAfter |-> IF Removed(attempts) THEN 0
                                     ELSE Len(store)]
     /\ writers' = [writers EXCEPT ![s] = NoWrite]
     /\ UNCHANGED <<uuidNext, vsVectorstore, lastSave, instances, lastProcess,
                    lastExists, lastSplit, manager>>
     /\ UNCHANGED bookVars
     /\ UNCHANGED pageVars
     /\ UNCHANGED askVars

(***************************************************************************)
(* split_documents: RecursiveCharacterTextSplitter(chunk_size=1000,        *)
(* chunk_overlap=200, length_function=len) with the library's defaults     *)
(* (separators "\n\n", "\n", " ", "", the separator kept at the start of   *)
(* the piece that follows it, whitespace stripped from every chunk).       *)
(* process_single_document hands it text that clean_text has reduced to    *)
(* words separated by single spaces, so a document is the sequence of its  *)
(* word lengths; a piece and a chunk are spans of that text.               *)
(***************************************************************************)
ChunkSize == 1000
ChunkOverlap == 200

WordLengths == {100, 199, 624, 1249, 1250, 2500}

Documents == UNION {[1..n -> WordLengths] : n \in 0..MaxWords}

\* len(page_content)
RECURSIVE TextLength(_)
TextLength(words) ==
  IF words = <<>> THEN 0
  ELSE Head(words) + (IF Len(words) > 1 THEN 1 ELSE 0) + TextLength(Tail(words))

\* the position of the first character of word i
RECURSIVE WordStart(_, _)
WordStart(words, i) ==
  IF i = 1 THEN 0 ELSE WordStart(words, i - 1) + words[i - 1] + 1

\* space: the span begins with the separator that was kept
Piece(start, len, space) == [start |-> start, len |-> len, space |-> space]

Chunk(start, len) == [start |-> start, len |-> len]

\* _split_text_with_regex(text, " ", keep_separator=True)
SplitOnSpace(words) ==
  [i \in DOMAIN words |->
     IF i = 1 THEN Piece(0, words[1], FALSE)
     ELSE Piece(WordStart(words, i) - 1, words[i] + 1, TRUE)]

\* _join_docs: the pieces joined with "" and stripped
JoinDocs(current) ==
  LET first == current[1]
      last  == current[Len(current)]
      lead  == IF first.space THEN 1 ELSE 0
  IN Chunk(first.start + lead, last.start + last.len - first.start - lead)

\* _merge_splits, the while loop that drops pieces from the front of
\* current_doc
RECURSIVE PopFront(_, _, _)
PopFront(current, total, len) ==
  IF total > ChunkOverlap \/ (total + len > ChunkSize /\ total > 0)
  THEN PopFront(Tail(current), total - Head(current).len, len)
  ELSE [current |-> current, total |-> total]

\* _merge_splits(splits, "") from piece i on
RECURSIVE MergeSplits(_, _, _, _, _)
MergeSplits(splits, i, current, total, docs) ==
  IF i > Len(splits)
  THEN IF current = <<>> THEN docs ELSE Append(docs, JoinDocs(current))
  ELSE LET d    == splits[i]
           full == total + d.len > ChunkSize /\ current # <<>>
           kept == IF full THEN PopFront(current, total, d.len)
                   ELSE [current |-> current, total |-> total]
       IN MergeSplits(splits, i + 1, Append(kept.current, d),
                      kept.total + d.len,
                      IF full THEN Append(docs, JoinDocs(current)) ELSE docs)

\* _merge_splits on the characters of text[start:end], every piece of
\* length one: a chunk is emitted at ChunkSize characters and the last
\* ChunkOverlap of them are kept for the next
RECURSIVE CharWindows(_, _)
CharWindows(start, end) ==
  IF end - start <= ChunkSize THEN << Chunk(start, end - start) >>
  ELSE << Chunk(start, ChunkSize) >>
         \o CharWindows(start + ChunkSize - ChunkOverlap, end)

\* _split_text(piece, [""]): the windows over the characters of the piece,
\* the first one stripped of the separator it begins with
CharChunks(piece) ==
  LET w == CharWindows(piece.start, piece.start + piece.len)
  IN IF piece.space
     THEN << Chunk(w[1].start + 1, w[1].len - 1) >> \o Tail(w)
     ELSE w

\* _split_text(text, separators), the loop over the pieces: the pieces
\* shorter than chunk_size are merged, a longer one is split again
RECURSIVE SplitPieces(_, _, _, _)
SplitPieces(splits, i, good, final) ==
  LET merged == IF good = <<>> THEN <<>>
                ELSE MergeSplits(good, 1, <<>>, 0, <<>>)
  IN IF i > Len(splits) THEN final \o merged
     ELSE IF splits[i].len < ChunkSize
     THEN SplitPieces(splits, i + 1, Append(good, splits[i]), final)
     ELSE SplitPieces(splits, i + 1, <<>>,
                      final \o merged \o CharChunks(splits[i]))

\* text_splitter.split_documents([doc]): without a space the text is split
\* into its characters
SplitText(words) ==
  IF words = <<>> THEN <<>>
  ELSE IF Len(words) = 1 THEN CharChunks(Piece(0, words[1], FALSE))
  ELSE SplitPieces(SplitOnSpace(words), 1, <<>>, <<>>)

(***************************************************************************)
(* RAGSystemManager: get_rag_system for any collection and directory,      *)
(* list_active_systems and clear_cache.  manager keeps, next to the cache  *)
(* instances, which object each cached instance is:                        *)
(*   objects   key -> the object cached under it: its id and the           *)
(*             model_name (one of the kwargs) it was constructed with      *)
(*   built     RAGSystem constructions that returned, so far               *)
(*   served    per (collection_name, chroma_dir), the objects returned     *)
(*             since the last clear_cache                                  *)
(*   builtFor  per (collection_name, chroma_dir), the constructions made   *)
(*             since the last clear_cache                                  *)
(*   last      the last call: what it was, whether it raised and the       *)
(*             cache it found                                              *)
(***************************************************************************)
CollectionNames == {"document_collection", "document"}

ChromaDirs == {"BD/chroma_db_dir", "collection_BD/chroma_db_dir"}

ModelNames == {"llama3.2", "mistral"}

Pairs == CollectionNames \X ChromaDirs

\* key = f"{collection_name}_{chroma_dir}"
Key(collection_name, chroma_dir) == collection_name \o "_" \o chroma_dir

NoManager ==
  [objects  |-> NoInstances,
   built    |-> 0,
   served   |-> [p \in Pairs |-> {}],
   builtFor |-> [p \in Pairs |-> 0],
   last     |-> [op |-> "none", raised |-> FALSE, before |-> NoInstances]]

\* a check that would never find the key
CachedNever(key) == FALSE

\* key in cls._instances
Cached(key) == key \in DOMAIN instances

\* RAGSystem(collection_name, chroma_dir, **kwargs) raises: a component
\* cannot be set up, or _load_vectorstore finds no directory or an empty
\* collection.  save_to_chroma writes to document_collection in
\* BD/chroma_db_dir only, so any other collection is empty and the other
\* directory is missing.
ConstructionRaises(collection_name, chroma_dir, initRaises) ==
  \/ initRaises
  \/ IF Key(collection_name, chroma_dir) = InstanceKey
        /\ collection_name = "document_collection"
     THEN LoadRaises
     ELSE TRUE

\* cls._instances[key] = value
Put(cache, key, value) ==
  [k \in DOMAIN cache \cup {key} |-> IF k = key THEN value ELSE cache[k]]

\* RAGSystemManager.get_rag_system(collection_name, chroma_dir, **kwargs)
ManagerGet(collection_name, chroma_dir, model_name, initRaises, bm25Raises) ==
  LET key    == Key(collection_name, chroma_dir)
      pair   == <<collection_name, chroma_dir>>
      hit    == Cached(key)
      raises == ~hit /\ ConstructionRaises(collection_name, chroma_dir, initRaises)
      builds == ~hit /\ ~raises
      object == IF hit THEN manager.objects[key]
                ELSE [id |-> manager.built + 1, model_name |-> model_name]
  IN /\ builds => manager.built < MaxBuilt
     /\ instances' = IF builds
                      THEN Put(instances, key, NewRAGSystem(bm25Raises))
                      ELSE instances
     /\ manager' =
          [objects  |-> IF builds THEN Put(manager.objects, key, object)
                        ELSE manager.objects,
           built    |-> IF builds THEN manager.built + 1 ELSE manager.built,
           served   |-> IF raises THEN manager.served
                        ELSE [manager.served EXCEPT ![pair] = @ \cup {object}],
           builtFor |-> IF builds
                        THEN [manager.builtFor EXCEPT ![pair] = @ + 1]
                        ELSE manager.builtFor,
           last     |-> [op |-> "get", raised |-> raises, before |-> instances]]
     /\ UNCHANGED <<writers, lastSplit>>
     /\ UNCHANGED bookVars
     /\ UNCHANGED pageVars
     /\ UNCHANGED vsVars
     /\ UNCHANGED askVars
     /\ UNCHANGED opsVars

\* RAGSystemManager.list_active_systems()
ListActiveSystems == DOMAIN instances

\* RAGSystemManager.clear_cache()
ClearCache ==
  /\ instances' = NoInstances
  /\ manager' = [NoManager EXCEPT
                   !.built = manager.built,
                   !.last = [op |-> "clear", raised |-> FALSE,
                             before |-> instances]]
  /\ UNCHANGED <<writers, lastSplit>>
  /\ UNCHANGED bookVars
  /\ UNCHANGED pageVars
  /\ UNCHANGED vsVars
  /\ UNCHANGED askVars
  /\ UNCHANGED opsVars

NoUpload ==
  [called |-> FALSE, files |-> <<>>, clicked |-> FALSE, stored |-> {},
   valid |-> <<>>, warned |-> {}, errors |-> {}, to_process |-> <<>>]

NoYoutube ==
  [called |-> FALSE, file |-> "", registered |-> FALSE, stored |-> FALSE,
   raised |-> FALSE, status |-> "", reported |-> ""]

NoSearch == [called |-> FALSE, shown |-> FALSE, exists |-> FALSE]

(***************************************************************************)
(* The documents upload page, FileUploadManager._show_documents_upload.    *)
(* Every interaction runs the page again with what the uploader holds:     *)
(*   files    the files in the uploader (valid ones, saved under their     *)
(*            names in temp_uploads, so that a path is a file name)        *)
(*   clicked  the run was started by the button "Procesar y Guardar"       *)
(***************************************************************************)
\* the position of the first entry with the property, 0 when there is none
First(entries, Has(_)) ==
  IF \E i \in DOMAIN entries : Has(entries[i])
  THEN CHOOSE i \in DOMAIN entries :
         /\ Has(entries[i])
         /\ \A j \in 1..(i - 1) : ~Has(entries[j])
  ELSE 0

NoHandled ==
  [valid |-> <<>>, details |-> <<>>, existing |-> <<>>, warned |-> {},
   errors |-> {}]

\* handle_uploaded_files, lines 120-159: one pass of the loop.  The search
\* for an indexed entry reads f['hash'] of every entry up to the first
\* match and raises KeyError on an entry without that key; the error is
\* shown and the file skipped.
HandleFile(acc, file) ==
  LET h        == Hash(file)
      indexed  == First(acc.existing,
                        LAMBDA e : e.hash = h /\ e.status = "Indexado")
      hashless == First(acc.existing, LAMBDA e : e.hash = NoHash)
      pending  == First(acc.existing,
                        LAMBDA e : e.hash = h /\ e.status # "Indexado")
  IN IF hashless # 0 /\ (indexed = 0 \/ hashless < indexed)
     THEN [acc EXCEPT !.errors = @ \cup {file}]
     ELSE IF indexed # 0
     THEN [acc EXCEPT !.warned = @ \cup {file}]
     ELSE IF pending # 0
     THEN [acc EXCEPT !.valid = Append(@, file),
                      !.existing[pending] = FileDetail(file, h, "Pendiente")]
     ELSE [acc EXCEPT !.valid = Append(@, file),
                      !.details = Append(@, FileDetail(file, h, "Pendiente"))]

\* handle_uploaded_files(uploaded_files, existing_files)
RECURSIVE HandleUploadedFiles(_, _)
HandleUploadedFiles(files, acc) ==
  IF files = <<>> THEN acc
  ELSE HandleUploadedFiles(Tail(files), HandleFile(acc, Head(files)))

\* add_document for every element of file_details: a row of status
\* 'Pendiente' (rows and entries are added together, so that the path of a
\* new file has no row yet)
AddDocumentRows(table, file_details) ==
  [p \in DOMAIN table \cup {file_details[i].path : i \in DOMAIN file_details}
     |-> IF p \in DOMAIN table THEN table[p] ELSE "Pendiente"]

\* _show_upload_interface, lines 367-370
FilesToProcess(valid_files, file_details, uploaded_files_state) ==
  IF file_details # <<>> THEN file_details
  ELSE SelectSeq(uploaded_files_state,
                 LAMBDA f : f.status = "Pendiente" /\ f.path \in Range(valid_files))

ShowDocumentsUpload(files, clicked, chunkFails, embedFails) ==
  LET h          == HandleUploadedFiles(files,
                                        [NoHandled EXCEPT !.existing = uploadedFiles])
      state      == h.existing \o h.details
      persisted  == IF h.details # <<>> THEN state ELSE uploadedFiles
      table      == IF h.details # <<>> THEN AddDocumentRows(documents, h.details)
                    ELSE documents
      to_process == FilesToProcess(h.valid, h.details, state)
      processes  == clicked /\ h.valid # <<>>
      o          == ProcessOutcome(h.valid, to_process, chunkFails, embedFails,
                                   table, persisted)
  IN \* the button is there when the run before showed it for these files
     /\ clicked => /\ lastUpload.called
                   /\ lastUpload.files = files
                   /\ lastUpload.valid # <<>>
     /\ ~clicked => chunkFails = {} /\ embedFails = {}
     /\ IF processes /\ o.loaded # <<>>
        THEN SaveToChroma(o.loaded, o.raises, o.raises)
        ELSE UNCHANGED vsVars
     /\ lastProcess' = IF processes THEN o.last ELSE lastProcess
     /\ vectorstoreFlag' = IF processes THEN o.flag ELSE vectorstoreFlag
     /\ documents' = IF processes THEN o.documents ELSE table
     /\ uploadedFiles' = IF processes THEN o.uploaded ELSE persisted
     /\ lastUpload' = [called |-> TRUE, files |-> files, clicked |-> clicked,
                       stored |-> {store[i].source : i \in DOMAIN store},
                       valid |-> h.valid, warned |-> h.warned,
                       errors |-> h.errors,
                       to_process |-> IF processes THEN to_process ELSE <<>>]
     /\ UNCHANGED <<instances, lastExists, lastClear>>
     /\ UNCHANGED askVars
     /\ UNCHANGED <<writers, lastSplit, manager, lastYoutube, lastSearch>>

(***************************************************************************)
(* FileUploadManager._process_youtube_subtitles(sub_file, video_info), the *)
(* subtitles of the video downloaded to the file "Y"                       *)
(***************************************************************************)
SubtitlesFile == "Y"

\* "if success:" on what process_and_save_files returned
Truthy(value) == value \notin {"None", "False"}

\* the status of the last entry of that path
StatusOf(state, path) ==
  LET at == {i \in DOMAIN state : state[i].path = path}
  IN IF at = {} THEN ""
     ELSE state[CHOOSE i \in at : \A j \in at : j <= i].status

\* lines 271-276: the first entry of that path becomes 'Completado'
Completed(state, path) ==
  LET at == First(state, LAMBDA f : f.path = path)
  IN IF at = 0 THEN state
     ELSE [state EXCEPT ![at] = FileDetail(@.path, @.hash, "Completado")]

ProcessYoutubeSubtitles(chunkFails, embedFails) ==
  LET \* add_document raises on a path that has a row (path is UNIQUE)
      registered == SubtitlesFile \notin DOMAIN documents
      detail     == FileDetail(SubtitlesFile, NoHash, "Procesando")
      table      == AddDocumentRows(documents, << detail >>)
      state      == Append(uploadedFiles, detail)
      o          == ProcessOutcome(<< SubtitlesFile >>, << detail >>,
                                   chunkFails, embedFails, table, state)
      success    == Truthy(o.last.returned)
      final      == IF success THEN Completed(o.uploaded, SubtitlesFile)
                    ELSE o.uploaded
  IN /\ ~registered => chunkFails = {} /\ embedFails = {}
     /\ IF registered /\ o.loaded # <<>>
        THEN SaveToChroma(o.loaded, o.raises, o.raises)
        ELSE UNCHANGED vsVars
     /\ lastProcess' = IF registered THEN o.last ELSE lastProcess
     /\ vectorstoreFlag' = IF registered THEN o.flag ELSE vectorstoreFlag
     /\ documents' = IF registered THEN o.documents ELSE documents
     /\ uploadedFiles' = IF registered THEN final ELSE uploadedFiles
     /\ lastYoutube' =
          [called |-> TRUE, registered |-> registered,
           stored |-> registered /\ o.last.saved,
           status |-> IF registered THEN StatusOf(final, SubtitlesFile)
                      ELSE StatusOf(uploadedFiles, SubtitlesFile),
           reported |-> IF registered /\ success THEN "success" ELSE "error"]
     /\ UNCHANGED <<instances, lastExists, lastClear>>
     /\ UNCHANGED askVars
     /\ UNCHANGED <<writers, lastSplit, manager, lastUpload, lastSearch>>

(***************************************************************************)
(* SearchInterface.show with a query typed in                              *)
(***************************************************************************)
\* _check_vectorstore_exists
CheckVectorstoreExists == vectorstoreFlag

\* shown: the page went past the check and ran the search; exists: the
\* persisted collection was there and held an entry
ShowSearchInterface ==
  /\ lastSearch' = [called |-> TRUE, shown |-> CheckVectorstoreExists,
                    exists |-> CollectionExists]
  /\ UNCHANGED <<instances, lastProcess, lastExists, lastClear>>
  /\ UNCHANGED vsVars
  /\ UNCHANGED askVars
  /\ UNCHANGED <<writers, lastSplit, manager, lastUpload, lastYoutube>>
  /\ UNCHANGED bookVars

NoSplit == [called |-> FALSE, words |-> <<>>, chunks |-> <<>>]

SplitDocuments(words) ==
  /\ lastSplit' = [called |-> TRUE, words |-> words, chunks |-> SplitText(words)]
  /\ UNCHANGED <<writers, manager>>
  /\ UNCHANGED bookVars
  /\ UNCHANGED pageVars
  /\ UNCHANGED instances
  /\ UNCHANGED vsVars
  /\ UNCHANGED askVars
  /\ UNCHANGED opsVars
Init ==
  /\ dirExists = FALSE
  /\ store = <<>>
  /\ uuidNext = 1
  /\ vsVectorstore = FALSE
  /\ lastSave = NoSave
  /\ instances = NoInstances
  /\ ragSelf = NoRAGSystem
  /\ pc = "idle"
  /\ question = ""
  /\ all_questions = <<>>
  /\ qIndex = 1
  /\ all_relevant_docs = <<>>
  /\ seen_content = {}
  /\ result = NoResult
  /\ events = <<>>
  /\ lastRetrieval = NoRetrieval
  /\ llmResponse = <<>>
  /\ lastProcess = NoProcess
  /\ lastExists = NoExists
  /\ lastClear = NoClear
  /\ writers = [s \in Sessions |-> NoWrite]
  /\ lastSplit = NoSplit
  /\ manager = NoManager
  /\ vectorstoreFlag = FALSE
  /\ documents = NoDocuments
  /\ uploadedFiles = <<>>
  /\ lastUpload = NoUpload
  /\ lastYoutube = NoYoutube
  /\ lastSearch = NoSearch

Next ==
  \/ \E batch \in Batches, addRaises \in BOOLEAN,
        fromDocsRaises \in BOOLEAN :
       Save(batch, addRaises, fromDocsRaises)
  \/ \E q \in UserQuestions, bm25Raises \in BOOLEAN : AskStart(q, bm25Raises)
  \/ \E llmRaises \in BOOLEAN, response \in Responses :
       Expand(llmRaises, response)
  \/ \E retrieverRaises \in BOOLEAN : Retrieve(retrieverRaises)
  \/ \E llmRaises \in BOOLEAN, description \in ErrorDescriptions :
       Generate(llmRaises, description)

Spec == Init /\ [][Next]_vars

\* the write path alone: batches saved one after the other
NextIngest ==
  \E batch \in Batches, addRaises \in BOOLEAN,
     fromDocsRaises \in BOOLEAN :
    Save(batch, addRaises, fromDocsRaises)

SpecIngest == Init /\ [][NextIngest]_vars

\* batches of files processed one after the other
NextBatch ==
  \E files \in Batches, chunkFails \in SUBSET {"A", "B"},
     embedFails \in SUBSET {"A", "B"} :
    ProcessAndSaveFiles(files, chunkFails, embedFails)

SpecBatch == Init /\ [][NextBatch]_vars

\* the operations of VectorStoreManager on the persisted collection
NextStore ==
  \/ \E batch \in Batches, addRaises \in BOOLEAN,
        fromDocsRaises \in BOOLEAN :
       Save(batch, addRaises, fromDocsRaises)
  \/ \E checkRaises \in BOOLEAN : CheckExists(checkRaises)
  \/ \E platform \in Platforms, lockedFor \in 0..MaxLock :
       ClearVectorstore(platform, lockedFor)

SpecStore == Init /\ [][NextStore]_vars

\* two sessions writing to the same persisted collection
NextWriters ==
  \/ \E s \in Sessions, batch \in Batches : BeginSave(s, batch)
  \/ \E s \in Sessions, addRaises \in BOOLEAN, fromDocsRaises \in BOOLEAN :
       EndSave(s, addRaises, fromDocsRaises)
  \/ \E s \in Sessions : BeginClear(s)
  \/ \E s \in Sessions, platform \in Platforms, lockedFor \in 0..MaxLock :
       EndClear(s, platform, lockedFor)

SpecWriters == Init /\ [][NextWriters]_vars

\* the chunker alone
NextSplit == \E words \in Documents : SplitDocuments(words)

SpecSplit == Init /\ [][NextSplit]_vars

\* ingestion and the question on the topic of one file
NextTopic ==
  \/ \E batch \in Batches, addRaises \in BOOLEAN,
        fromDocsRaises \in BOOLEAN :
       Save(batch, addRaises, fromDocsRaises)
  \/ \E bm25Raises \in BOOLEAN : AskStart(TopicQuestion, bm25Raises)
  \/ \E llmRaises \in BOOLEAN, response \in Responses :
       Expand(llmRaises, response)
  \/ \E retrieverRaises \in BOOLEAN : Retrieve(retrieverRaises)
  \/ \E llmRaises \in BOOLEAN, description \in ErrorDescriptions :
       Generate(llmRaises, description)

SpecTopic == Init /\ [][NextTopic]_vars

\* ingestion and the calls on RAGSystemManager
NextManager ==
  \/ \E batch \in Batches, addRaises \in BOOLEAN,
        fromDocsRaises \in BOOLEAN :
       Save(batch, addRaises, fromDocsRaises)
  \/ \E pair \in Pairs, model_name \in ModelNames, initRaises \in BOOLEAN,
        bm25Raises \in BOOLEAN :
       ManagerGet(pair[1], pair[2], model_name, initRaises, bm25Raises)
  \/ ClearCache

SpecManager == Init /\ [][NextManager]_vars

\* the pages of the application that upload and index
NextPages ==
  \/ \E files \in Batches, clicked \in BOOLEAN,
        chunkFails \in SUBSET {"A"}, embedFails \in SUBSET {"B"} :
       ShowDocumentsUpload(files, clicked, chunkFails, embedFails)
  \/ \E chunkFails \in SUBSET {SubtitlesFile},
        embedFails \in SUBSET {SubtitlesFile} :
       ProcessYoutubeSubtitles(chunkFails, embedFails)

SpecPages == Init /\ [][NextPages]_vars

\* indexing, the removal of the collection and the search page
NextSearch ==
  \/ \E files \in Batches, embedFails \in SUBSET {"A"} :
       ProcessAndSaveFiles(files, {}, embedFails)
  \/ \E platform \in Platforms, lockedFor \in {0, MaxLock} :
       ClearVectorstore(platform, lockedFor)
  \/ ShowSearchInterface

SpecSearch == Init /\ [][NextSearch]_vars

(***************************************************************************)
(* Properties of save_to_chroma                                            *)
(***************************************************************************)
\* the last call returned and was given the same documents as the call
\* before it, which returned too
SavedAgain ==
  /\ lastSave.called
  /\ ~lastSave.raised
  /\ lastSave.batch # <<>>
  /\ lastSave.prevBatch = lastSave.batch

\* C1: idempotent ingestion - when save_to_chroma is called twice with the
\* chunks of the same document, the collection holds as many entries after
\* the second call as after the first
IdempotentIngestion ==
  SavedAgain => Len(store) = Len(lastSave.before)

\* the chunk an entry or a provided document stands for
ChunkOf(d) == <<d.source, d.content>>

\* C2: at-most-once write - a call against an existing collection writes
\* exactly the provided chunks whose identifier is not yet in the store,
\* and the identifier compared is the one every entry is stored under, so
\* a chunk written by an earlier call is recognised and skipped
AtMostOnceWrite ==
  (lastSave.called /\ lastSave.existed /\ ~lastSave.fellBack
     /\ ~lastSave.raised) =>
    /\ \A j \in DOMAIN lastSave.before :
         lastSave.before[j].key = lastSave.before[j].doc_id
    /\ \A i \in DOMAIN lastSave.written :
         lastSave.written[i].doc_id \notin ExistingIds(lastSave.before)
    /\ \A i \in DOMAIN lastSave.written :
         \A j \in DOMAIN lastSave.before :
           ChunkOf(lastSave.written[i]) # ChunkOf(lastSave.before[j])

LexicalIndexFresh ==
  (lastRetrieval.made /\ lastRetrieval.kind = "hybrid") =>
     lastRetrieval.corpus = StoredDocuments(lastRetrieval.stored)

\* C5: threshold enforcement - no document whose similarity to the query is
\* below 0.3 is in the output of the retriever, whichever branch of
\* _setup_retriever built it
ThresholdEnforced ==
  lastRetrieval.made =>
     \A i \in DOMAIN lastRetrieval.out :
        Similarity(lastRetrieval.q, lastRetrieval.out[i].page_content)
          >= ScoreThreshold

\* C7: hybrid ranking stability - a retriever built without a lexical index
\* (empty corpus, or BM25 could not be built) returns exactly what the
\* vector search with k = 16 and threshold 0.3 returns
VectorOnlyWhenNoLexical ==
  (lastRetrieval.made /\ ~lastRetrieval.raised
     /\ lastRetrieval.kind # "hybrid") =>
     lastRetrieval.out = ThresholdSearch(lastRetrieval.stored, lastRetrieval.q)

(***************************************************************************)
(* Properties of ask_question                                              *)
(***************************************************************************)
\* everything the retriever returned to the running call, in order
Surfaced == Flatten([i \in DOMAIN events |-> events[i].out])

\* C6: dedup by content - no two gathered documents have the same content,
\* whatever their metadata; of the documents of one content the retrievers
\* returned, the first is the one kept
DedupByContent ==
  /\ \A i, j \in DOMAIN all_relevant_docs :
       i # j => all_relevant_docs[i].page_content
                  # all_relevant_docs[j].page_content
  /\ all_relevant_docs = UniqueByContent(Surfaced, {})

\* the retrievers returned two documents of one content and different
\* metadata, and the call has finished
DedupByContentWitness ==
  /\ pc = "done"
  /\ result.answer = "respuesta"
  /\ \E i, j \in DOMAIN Surfaced :
       /\ i < j
       /\ Surfaced[i].page_content = Surfaced[j].page_content
       /\ Surfaced[i].metadata # Surfaced[j].metadata
       /\ Surfaced[i].metadata.present
       /\ Surfaced[j].metadata.present

EventsOf(ev) == {i \in DOMAIN events : events[i].ev = ev}

\* the running call got past the blank check on an instance
Answering == pc \in {"expand", "retrieve"} \/ events # <<>>

\* C8: per non-blank question the answer call is made once, after the
\* expansion returned and after a retrieval was attempted for every
\* expanded question in turn, and it is given the original question
GenerationAfterRetrieval ==
  /\ Cardinality(EventsOf("generate")) <= 1
  /\ (Answering /\ pc = "done") => Cardinality(EventsOf("generate")) = 1
  /\ \A g \in EventsOf("generate") :
       /\ g = Len(events)
       /\ g = Len(all_questions) + 2
       /\ events[1].ev = "expand"
       /\ \A k \in 1..Len(all_questions) :
            /\ events[k + 1].ev = "retrieve"
            /\ events[k + 1].q = all_questions[k]
       /\ events[g].q = question
       /\ all_questions[1] = question

\* an answered question that had two expansions, the last one another
\* question than the original
GenerationAfterRetrievalWitness ==
  /\ pc = "done"
  /\ Len(all_questions) = 3
  /\ all_questions[3] # question
  /\ EventsOf("generate") # {}
  /\ result.answer = "respuesta"

\* every call of the generation model made by the running call raised
ProviderDown ==
  /\ EventsOf("generate") # {}
  /\ \A i \in EventsOf("expand") \cup EventsOf("generate") : events[i].raised

RetrieverRaised == \E i \in EventsOf("retrieve") : events[i].raised

\* C10 as stated: a retriever error makes ask_question return the apology
\* with no sources and the error description, and the generation model is
\* not asked
RetrieverErrorBecomesApology ==
  (pc = "done" /\ RetrieverRaised) =>
     /\ result.answer = ApologyText
     /\ result.sources = <<>>
     /\ result.error # ""
     /\ EventsOf("generate") = {}

\* C10 amended: a retriever error is logged and that question skipped - the
\* loop goes on to the remaining questions, the generation model is asked
\* once with what the other retrievals gathered, and the call returns the
\* apology only if that generation call raises
RetrieverErrorIsSkipped ==
  (pc = "done" /\ RetrieverRaised) =>
     /\ Cardinality(EventsOf("retrieve")) = Len(all_questions)
     /\ Cardinality(EventsOf("generate")) = 1
     /\ \A g \in EventsOf("generate") :
          /\ (result.answer = ApologyText) <=> events[g].raised
          /\ ~events[g].raised =>
               /\ result.error = ""
               /\ result.total_chunks_retrieved = Len(all_relevant_docs)
     /\ all_relevant_docs = UniqueByContent(Surfaced, {})

\* the first retrieval raised, a later one returned documents, and the
\* answer is the model's
RetrieverErrorIsSkippedWitness ==
  /\ pc = "done"
  /\ Len(events) >= 4
  /\ events[2].ev = "retrieve" /\ events[2].raised
  /\ all_relevant_docs # <<>>
  /\ result.answer = "respuesta"
  /\ result.sources # <<>>

(***************************************************************************)
(* Claims C11 to C20                                                       *)
(***************************************************************************)
\* the questions that are empty or whitespace only
BlankQuestions == {"", "   "}

\* C11: for a question that is empty or whitespace only, ask_question
\* returns the fixed clarification message with an empty sources list and
\* the "Pregunta vacia" flag, and neither the expansion, nor the retriever,
\* nor the answer generation is invoked
EmptyQuestionShortCircuit ==
  (pc # "idle" /\ ragSelf # NoRAGSystem /\ question \in BlankQuestions) =>
     /\ pc = "done"
     /\ result.answer = ClarificationText
     /\ result.sources = <<>>
     /\ result.error = "Pregunta vacia"
     /\ events = <<>>
     /\ ~lastRetrieval.made

\* a whitespace-only question was asked of a RAGSystem and answered
EmptyQuestionShortCircuitWitness ==
  /\ pc = "done"
  /\ ragSelf # NoRAGSystem
  /\ question = "   "
  /\ result = EmptyQuestionResult

\* the retrieved chunks that carry metadata, in the order of retrieval
SourcedDocs == SelectSeq(all_relevant_docs, LAMBDA d : d.metadata.present)

\* the position in SourcedDocs of the first chunk of a source
FirstSeen(src) ==
  CHOOSE i \in DOMAIN SourcedDocs :
    /\ SourcedDocs[i].metadata.source = src
    /\ \A j \in 1..(i - 1) : SourcedDocs[j].metadata.source # src

\* C12: in a successful result, sources holds each distinct source of the
\* retrieved chunks exactly once in first-seen order, and source_details has
\* one entry per source, in the same order, taken from the first chunk of
\* that source; both are total_sources long
SourceExtraction ==
  (pc = "done" /\ result.answer = "respuesta") =>
     LET s == result.sources
         d == result.source_details
     IN /\ Range(s) = {SourcedDocs[i].metadata.source : i \in DOMAIN SourcedDocs}
        /\ \A i, j \in DOMAIN s : i # j => s[i] # s[j]
        /\ \A i, j \in DOMAIN s : i < j => FirstSeen(s[i]) < FirstSeen(s[j])
        /\ Len(d) = Len(s)
        /\ result.total_sources = Len(s)
        /\ \A i \in DOMAIN s :
             LET first == SourcedDocs[FirstSeen(s[i])].metadata
             IN d[i] = [source |-> s[i],
                        document_name |-> first.document_name,
                        chunk_number |-> first.chunk_number]

\* two chunks of one source were retrieved and the source is listed once
SourceExtractionWitness ==
  /\ pc = "done"
  /\ result.answer = "respuesta"
  /\ Len(SourcedDocs) = 2
  /\ SourcedDocs[1].metadata.source = SourcedDocs[2].metadata.source
  /\ Len(result.sources) = 1
  /\ Len(result.source_details) = 1

\* the expansion of the running call has returned
Expanded == EventsOf("expand") # {}

\* C13: whatever the model returns, _generate_related_questions returns a
\* sequence that starts with the original question, unchanged, followed by
\* at most 2 more questions
ExpansionStartsWithOriginal ==
  Expanded =>
     /\ Len(all_questions) >= 1
     /\ all_questions[1] = question
     /\ Len(all_questions) <= 1 + 2

\* the model returned more than two usable lines and two were kept
ExpansionStartsWithOriginalWitness ==
  /\ Expanded
  /\ ~events[1].raised
  /\ Len(llmResponse) > 3
  /\ Len(all_questions) = 3
  /\ all_questions[1] = question

\* the model call of the expansion of the running call raised
ExpansionRaised == Expanded /\ events[1].ev = "expand" /\ events[1].raised

\* C14: when the model call of _generate_related_questions raises, it
\* returns only the original question, and ask_question goes on: it
\* retrieves for the original question and asks the generation model, and
\* the call ends with the apology only if that later call raises
ExpansionFailureNonFatal ==
  ExpansionRaised =>
     /\ all_questions = <<question>>
     /\ pc \in {"retrieve", "done"}
     /\ pc = "done" =>
          /\ Cardinality(EventsOf("retrieve")) = 1
          /\ \A i \in EventsOf("retrieve") : events[i].q = question
          /\ Cardinality(EventsOf("generate")) = 1
          /\ \A g \in EventsOf("generate") :
               /\ events[g].q = question
               /\ (result.answer = ApologyText) <=> events[g].raised

\* the expansion raised and the call still returned the model's answer
\* with the sources of the documents retrieved for the original question
ExpansionFailureNonFatalWitness ==
  /\ ExpansionRaised
  /\ pc = "done"
  /\ all_relevant_docs # <<>>
  /\ result.answer = "respuesta"
  /\ result.questions_used = 1

\* the lines of a response that are not empty
NonEmptyLines(response) ==
  SelectSeq(response, LAMBDA l : ~(l.marker = "none" /\ l.text = ""))

\* the text of a line, its leading marker removed
WithoutMarker(line) == line.text

\* C15: each of the first two non-empty lines the model returns, whether it
\* starts with a number, a dash, an asterisk or a bullet, becomes an expanded
\* question: the text of the line with the marker removed; no such line is
\* dropped
MarkerStrippedNotDropped ==
  (Expanded /\ ~ExpansionRaised) =>
     all_questions =
       <<question>> \o Take(MapSeq(NonEmptyLines(llmResponse), WithoutMarker), 2)

\* the files of the last batch that failed neither chunking nor embedding
HealthyFiles ==
  {f \in Range(lastProcess.files) :
     f \notin lastProcess.chunkFails \cup lastProcess.embedFails}

\* every chunk of file f was written to the index by the last save
FileWritten(f) ==
  \A i \in DOMAIN DocChunks(f) :
    \E k \in DOMAIN lastSave.written :
      /\ lastSave.written[k].source = f
      /\ lastSave.written[k].content = DocChunks(f)[i].content

\* C16: in process_and_save_files over a batch of several files, a chunking
\* or embedding failure on one file does not prevent the remaining files of
\* the batch from being chunked, embedded and written to the vector index
BatchFailureIsolated ==
  (/\ lastProcess.called
   /\ Len(lastProcess.files) > 1
   /\ lastProcess.chunkFails \cup lastProcess.embedFails # {}) =>
     \A f \in HealthyFiles : FileWritten(f)

\* C17: for every stored chunk, chunk_number is its 1-based position within
\* its own document and total_chunks the number of chunks of that document,
\* also when several files are ingested in one batch
ChunkNumberWithinDocument ==
  \A k \in DOMAIN store :
    /\ store[k].chunk_number \in DOMAIN DocChunks(store[k].source)
    /\ DocChunks(store[k].source)[store[k].chunk_number].content = store[k].content
    /\ store[k].total_chunks = Len(DocChunks(store[k].source))

\* C18 as stated: collection_exists returns true if and only if the
\* persisted directory exists and the collection holds at least one entry
ExistsIffPopulated ==
  lastExists.called =>
     (lastExists.value <=> (lastExists.dir /\ lastExists.count >= 1))

\* C18 amended: collection_exists returns true if and only if the directory
\* exists, the collection could be opened and counted without an exception,
\* and it holds at least one entry; any exception while opening or counting
\* gives false
ExistsIffPopulatedAndReadable ==
  lastExists.called =>
     (lastExists.value <=>
        (lastExists.dir /\ ~lastExists.raised /\ lastExists.count >= 1))

\* a populated collection whose check raised was reported as not existing
ExistsIffPopulatedAndReadableWitness ==
  /\ lastExists.called
  /\ lastExists.dir
  /\ lastExists.count >= 1
  /\ lastExists.raised
  /\ ~lastExists.value

\* C19: after clear_vectorstore returns, the persisted directory no longer
\* exists and collection_exists is false, also when files of the collection
\* were locked at the first removal attempt
ClearIsFullWipe ==
  lastClear.called =>
     /\ ~lastClear.dirAfter
     /\ ~(lastClear.dirAfter /\ lastClear.countAfter > 0)

\* C20: when the collection is locked during removal, the removal is first
\* retried a bounded number of times with exponentially growing waits, only
\* then escalated to a forced removal, and a collection still not removed
\* is reported to the caller as fatal
AccessConflictProtocol ==
  (/\ lastClear.called
   /\ lastClear.attempts # <<>>
   /\ lastClear.attempts[1].failed) =>
     LET a == lastClear.attempts
     IN /\ a[1].kind = "rmtree"
        /\ Len(a) >= 2
        /\ a[2].kind = "rmtree"
        /\ \A i \in DOMAIN a :
             a[i].kind = "rmdir" =>
               /\ i > 2
               /\ \A j \in 1..(i - 1) : a[j].kind = "rmtree" /\ a[j].failed
        /\ \A i \in DOMAIN a :
             (i > 1 /\ a[i].kind = "rmtree" /\ a[i].failed
                    /\ a[i - 1].kind = "rmtree") =>
               a[i].wait = 2 * a[i - 1].wait
        /\ ~lastClear.removed => lastClear.raised

(***************************************************************************)
(* Claims C21 to C30                                                       *)
(***************************************************************************)
\* the sessions that are inside save_to_chroma or clear_vectorstore
Writing == {s \in Sessions : writers[s].op # "idle"}

\* C21: single writer - a write in progress (save_to_chroma or
\* clear_vectorstore) of one session is never interleaved with a write of
\* another session to the same persisted collection
SingleWriter == Cardinality(Writing) <= 1

\* a step of the ask process (it leaves the store alone) that begins with
\* the persisted collection present and holding no entry
AskedOnEmptyCollection ==
  /\ dirExists
  /\ store = <<>>
  /\ UNCHANGED vsVars
  /\ Strip(question') # ""

\* C22: an empty corpus is not an error - a question asked while the
\* collection exists but holds no entries goes through the normal answer
\* flow with empty retrieval results; no error is returned for it
EmptyCorpusNotAnError ==
  [][AskedOnEmptyCollection =>
       /\ result'.answer # UnavailableResult.answer
       /\ result'.error = ""]_vars

\* the characters two consecutive chunks share
Overlap(prev, next) == prev.start + prev.len - next.start

\* C23: chunk windows - split_documents with chunk size 1000 and overlap
\* 200 yields chunks of at most 1000 characters, every chunk after the first
\* begins with the last 200 characters of the chunk before it, a document of
\* 2500 characters yields exactly 3 chunks and an empty document yields the
\* empty sequence
ChunkWindows ==
  lastSplit.called =>
    LET chunks == lastSplit.chunks
    IN /\ \A i \in DOMAIN chunks : chunks[i].len <= ChunkSize
       /\ \A i \in DOMAIN chunks :
            i > 1 => /\ Overlap(chunks[i - 1], chunks[i]) = ChunkOverlap
                     /\ chunks[i].len >= ChunkOverlap
       /\ TextLength(lastSplit.words) = 2500 => Len(chunks) = 3
       /\ lastSplit.words = <<>> => chunks = <<>>

\* the files that have chunks in the store
StoredSources == {store[i].source : i \in DOMAIN store}

\* the question on the topic of file "B" was answered from that question
\* alone (the model proposed no related question), the store holding chunks
\* of "A" and "B"
TopicAnswered ==
  /\ pc = "done"
  /\ question = TopicQuestion
  /\ all_questions = << TopicQuestion >>
  /\ result.error = ""
  /\ StoredSources = {"A", "B"}

\* C24: with chunks of A and B only in the store and a question on a topic
\* present only in B, the sources of the result contain only B and no chunk
\* of A is among the retrieved documents
OnlyTopicSources ==
  TopicAnswered =>
    /\ Range(result.sources) \subseteq {"B"}
    /\ \A i \in DOMAIN all_relevant_docs :
         all_relevant_docs[i].metadata.present
           => all_relevant_docs[i].metadata.source # "A"

\* C25: RAGSystemManager is a singleton per collection - the get_rag_system
\* calls made with one (collection_name, chroma_dir) since the last
\* clear_cache returned one and the same object, constructed at most once
\* with the kwargs of the call that constructed it; a construction that
\* raised left the cache as it was; after clear_cache list_active_systems
\* is empty
SingletonPerCollection ==
  /\ \A p \in Pairs : /\ Cardinality(manager.served[p]) <= 1
                      /\ manager.builtFor[p] <= 1
  /\ manager.last.op = "get" /\ manager.last.raised
       => instances = manager.last.before
  /\ manager.last.op = "clear" => ListActiveSystems = {}

\* the cache was cleared and filled again, and the last call was served
\* from the cache an object constructed for the model "mistral"
SingletonPerCollectionWitness ==
  /\ manager.built >= 2
  /\ manager.last.op = "get"
  /\ ~manager.last.raised
  /\ manager.last.before = instances
  /\ \E p \in Pairs : \E o \in manager.served[p] : o.model_name = "mistral"

\* the files of the last upload run that had chunks in the store when the
\* run began: they were processed and saved before
UploadedAgain ==
  {f \in Range(lastUpload.files) : f \in lastUpload.stored}

\* C26: already-indexed files are not ingested again - a file that was
\* processed and saved by process_and_save_files and is uploaded again with
\* the same content hash is reported as already loaded by
\* handle_uploaded_files and is not among the files to process
IndexedFilesNotReingested ==
  lastUpload.called =>
    \A f \in UploadedAgain : /\ f \in lastUpload.warned
                             /\ f \notin Range(lastUpload.valid)

\* the files of the last process_and_save_files call that it set to
\* 'Indexado', in file_details or in the documents table
MarkedIndexado ==
  {lastProcess.details[i].path : i \in
     {j \in DOMAIN lastProcess.details :
        \/ lastProcess.details[j].status = "Indexado"
        \/ /\ lastProcess.details[j].path \in DOMAIN lastProcess.documents
           /\ lastProcess.documents[lastProcess.details[j].path] = "Indexado"}}

\* the files of the last call whose chunks were written to the collection
Written ==
  IF lastProcess.saved
  THEN {f \in Range(LoadedFiles(lastProcess.files, lastProcess.chunkFails)) :
          DocChunks(f) # <<>>}
  ELSE {}

\* C27: a file is marked 'Indexado' only if indexing succeeded for it -
\* every file the call set to 'Indexado' had at least one chunk written to
\* the collection by that call; a file whose loading or chunking raised, or
\* gave no chunk, is not marked
IndexadoOnlyIfIndexed ==
  lastProcess.called => MarkedIndexado \subseteq Written

\* C28: the flag 'vectorstore_exists' is true only if the persisted
\* collection exists and holds at least one entry (so it is not true after
\* clear_vectorstore), and the search page never searches a collection that
\* is missing or empty
FlagOnlyIfPopulated ==
  /\ vectorstoreFlag => CollectionExists
  /\ lastSearch.called /\ lastSearch.shown => lastSearch.exists

\* C29: after _update_file_status every file of the batch has the status
\* 'Indexado' in the documents table and in the persisted app state
\* 'uploaded_files'
StatusPersisted ==
  lastProcess.called /\ lastProcess.saved =>
    \A i \in DOMAIN lastProcess.details :
      LET path == lastProcess.details[i].path
      IN /\ path \in DOMAIN lastProcess.documents
         /\ lastProcess.documents[path] = "Indexado"
         /\ \E j \in DOMAIN lastProcess.uploaded :
              /\ lastProcess.uploaded[j].path = path
              /\ lastProcess.uploaded[j].status = "Indexado"

\* C30: YouTube ingestion completes - when _process_youtube_subtitles has
\* registered the subtitles file and process_and_save_files has stored its
\* chunks without error, the entry of the file in 'uploaded_files' has moved
\* from 'Procesando' to 'Completado' and success is reported
YoutubeIngestionCompletes ==
  lastYoutube.called /\ lastYoutube.registered /\ lastYoutube.stored =>
    /\ lastYoutube.status = "Completado"
    /\ lastYoutube.reported = "success"

====
